---- MODULE Spec2Model ----
(***************************************************************************)
(* Interview-questions generator: the generation flow of main(), the       *)
(* model-identifier fallback of generate_questions() and the rule-based    *)
(* scoring of validate_generated_content().                                *)
(*                                                                         *)
(* Text is modelled as a sequence of tokens.  A token is what one of the   *)
(* program's regular expressions or substring tests can tell apart:        *)
(*   QH   a heading "## Question 7" written as the prompt asks             *)
(*   qh   the same heading in another letter case ("## question 7")        *)
(*   ANS  the label "**Answer:**" written as the prompt asks               *)
(*   ans  the same label in another letter case ("**answer:**")            *)
(*   TXT  n whitespace-separated plain words; has = the phrases that occur *)
(*        in their lower-cased text                                        *)
(*   CODE a fenced block ```...``` of n whitespace-separated words         *)
(* The empty sequence is the empty string; NoText is None.                 *)
(***************************************************************************)
EXTENDS Integers, Sequences, FiniteSets, TLC

VARIABLES
    \* ---- main(): widgets and environment
    api_key,            \* os.getenv('GEMINI_API_KEY'): "" when missing or empty
    topic,              \* sequence of the topic's whitespace-separated words
    question_type,      \* "Theoretical" | "Code-based"
    difficulty_level,   \* "Easy" | "Medium" | "Hard" | "Mixed"
    num_questions,      \* slider value
    filename,           \* output filename widget
    \* ---- main(): locals of the click handler
    pc,                 \* position in the flow
    counts,             \* [easy, medium, hard] sub-counts of the Mixed split
    tier,               \* index in Tiers of the sub-call in progress (0: none)
    tier_result,        \* results of the sub-calls made so far (None: failed)
    questions_parts,    \* list of sections
    questions_content,  \* combined content (None before it is assigned)
    file_path,          \* result of save_to_markdown (None: not saved)
    validation_results, \* report of validate_generated_content (None: no report)
    ui,                 \* what the run has shown, in order
    \* ---- generate_questions(): locals of the call in progress or last made
    call,               \* [level, n, idx, error_messages, attempted, result, status]
    \* ---- direct calls of validate_generated_content
    content,            \* text handed to the validator
    prev                \* passed-check count and score of the previous report

vars == <<api_key, topic, question_type, difficulty_level, num_questions, filename,
          pc, counts, tier, tier_result, questions_parts, questions_content,
          file_path, validation_results, ui, call, content, prev>>

\* Python's None, where a dict, a str and a path are expected
None == [none |-> TRUE]
NoText == <<None>>
NoPath == "<None>"

(***************************************************************************)
(* Bounds of the model.                                                    *)
(***************************************************************************)
MaxBlocks == 10        \* most question/answer blocks in one generated text
MaxWords == 30         \* most words in one generated answer
MaxExpected == 15      \* largest expected count handed to the validator directly

(***************************************************************************)
(* Tokens and the text-level primitives the program uses.                  *)
(***************************************************************************)
Tok(k, n, has) == [k |-> k, n |-> n, has |-> has]
Heading == Tok("QH", 3, {})
HeadingOtherCase == Tok("qh", 3, {})
AnswerLabel == Tok("ANS", 1, {})
AnswerLabelOtherCase == Tok("ans", 1, {})
Words(n, has) == Tok("TXT", n, has)
CodeBlock(n) == Tok("CODE", n, {})

\* r'##\s*Question\s*\d+' with or without re.IGNORECASE: the tokens it matches
question_pattern(ignorecase) == IF ignorecase THEN {"QH", "qh"} ELSE {"QH"}

\* r'\*\*Answer:\*\*' with or without re.IGNORECASE: the tokens it matches
answer_pattern(ignorecase) == IF ignorecase THEN {"ANS", "ans"} ELSE {"ANS"}

\* r'```[\s\S]*?```'
code_block_pattern == {"CODE"}

\* len(re.findall(pattern, text))
findall_count(pattern, text) == Cardinality({i \in 1..Len(text) : text[i].k \in pattern})

\* re.search(pattern, text): the index of the first match, 0 when there is none
re_search(pattern, text) ==
    IF \E i \in 1..Len(text) : text[i].k \in pattern
    THEN CHOOSE i \in 1..Len(text) :
             text[i].k \in pattern /\ \A j \in 1..(i - 1) : text[j].k \notin pattern
    ELSE 0

\* re.split(pattern, text): the parts between the matches, the first part included
RECURSIVE re_split(_, _)
re_split(pattern, text) ==
    LET i == re_search(pattern, text)
    IN  IF i = 0 THEN <<text>>
        ELSE <<SubSeq(text, 1, i - 1)>> \o re_split(pattern, SubSeq(text, i + 1, Len(text)))

\* len(text.strip().split()): the number of whitespace-separated words
RECURSIVE WordCount(_)
WordCount(text) ==
    IF text = <<>> THEN 0 ELSE Head(text).n + WordCount(Tail(text))

\* str.lower() of one word of the topic
Lower(w) ==
    CASE w = "Data" -> "data"
      [] w = "Structures" -> "structures"
      [] w = "Trees" -> "trees"
      [] OTHER -> w

\* topic.lower().split()
RECURSIVE LowerAll(_)
LowerAll(ws) == IF ws = <<>> THEN <<>> ELSE <<Lower(Head(ws))>> \o LowerAll(Tail(ws))

\* the phrases for which `phrase in content.lower()` is true
content_lower(text) == UNION {text[i].has : i \in 1..Len(text)}

\* sum(1 for x in xs if x in content_lower), xs a list
Mentions(xs, lower) == Cardinality({i \in 1..Len(xs) : xs[i] \in lower})

(***************************************************************************)
(* validate_generated_content                                              *)
(***************************************************************************)
difficulty_indicators(level) ==
    CASE level = "Easy" ->
           <<"basic", "simple", "fundamental", "introduction", "what is", "define">>
      [] level = "Medium" ->
           <<"explain", "compare", "analyze", "implement", "design", "optimize">>
      [] level = "Hard" ->
           <<"advanced", "complex", "sophisticated", "evaluate", "synthesize",
             "architect", "critique">>
      [] OTHER -> <<>>

code_indicators ==
    <<"code", "function", "algorithm", "implement", "syntax", "program", "script">>

theoretical_indicators ==
    <<"concept", "theory", "principle", "explain", "describe", "analyze">>

EmptyDict == [x \in {} |-> FALSE]

\* one entry of the warnings or errors list: the message and the numbers it quotes
Msg(text, a, b) == [msg |-> text, a |-> a, b |-> b]

\* the pattern of the split at line 204 and of the search at line 209: both are
\* used without re.IGNORECASE
answer_split_pattern_IgnoreCase == answer_pattern(TRUE)
answer_split_pattern == answer_pattern(FALSE)
next_question_pattern == question_pattern(FALSE)

\* the text of one answer: up to the next question heading or the end
answer_text(answer) ==
    LET next_question == re_search(next_question_pattern, answer)
    IN  IF next_question # 0 THEN SubSeq(answer, 1, next_question - 1) ELSE answer

\* answer_lengths: the word count of each answer section
answer_lengths(text) ==
    LET answer_sections == Tail(re_split(answer_split_pattern, text))
    IN  [i \in 1..Len(answer_sections) |-> WordCount(answer_text(answer_sections[i]))]

RECURSIVE SumSeq(_)
SumSeq(xs) == IF xs = <<>> THEN 0 ELSE Head(xs) + SumSeq(Tail(xs))

\* check 1: len(questions_found) >= num_questions * 0.8
question_count_valid(questions_found, expected) == 10 * questions_found >= 8 * expected

answers_complete_Strict(answers_found, questions_found) ==
    10 * answers_found > 9 * questions_found

\* check 2: len(answers_found) >= len(questions_found) * 0.9
answers_complete(answers_found, questions_found) == 10 * answers_found >= 9 * questions_found

topic_relevance_Strict(topic_mentions, keywords) == 2 * topic_mentions > keywords

\* check 3: topic_mentions >= len(topic_keywords) * 0.5
topic_relevance(topic_mentions, keywords) == 2 * topic_mentions >= keywords

difficulty_appropriate_AtLeastTwo(level, lower) ==
    Mentions(difficulty_indicators(level), lower) >= 2

\* check 4, for a level other than Mixed: difficulty_score >= 3
difficulty_appropriate(level, lower) == Mentions(difficulty_indicators(level), lower) >= 3

\* check 5: question type compliance
question_type_compliance(qtype, text, lower) ==
    IF qtype = "Code-based"
    THEN Mentions(code_indicators, lower) >= 5
         \/ findall_count(code_block_pattern, text) >= 3
    ELSE Mentions(theoretical_indicators, lower) >= 5

answer_quality_Strict(lengths) == SumSeq(lengths) > 30 * Len(lengths)

\* check 6: avg_answer_length >= 30, the average being sum / len
answer_quality(lengths) == SumSeq(lengths) >= 30 * Len(lengths)

\* the grade and colour of a score
Grade_StrictBoundaries(score) ==
    IF score > 85 THEN "Excellent"
    ELSE IF score > 70 THEN "Good"
    ELSE IF score > 50 THEN "Fair"
    ELSE "Poor"

Grade(score) ==
    IF score >= 85 THEN "Excellent"
    ELSE IF score >= 70 THEN "Good"
    ELSE IF score >= 50 THEN "Fair"
    ELSE "Poor"

Color(score) ==
    IF score >= 85 THEN "green"
    ELSE IF score >= 70 THEN "blue"
    ELSE IF score >= 50 THEN "orange"
    ELSE "red"

\* min(a, b)
Min_AsMax(a, b) == IF a >= b THEN a ELSE b
Min(a, b) == IF a <= b THEN a ELSE b

\* validation_results["overall_score"] += points, in the passing branch of a check
AddScore_Assign(score, pass, points) == IF pass THEN points ELSE score
AddScore(score, pass, points) == IF pass THEN score + points ELSE score

\* the message a check appends when it fails
MsgIf_Always(fails, m) == <<m>>

MsgIf(fails, m) == IF fails THEN <<m>> ELSE <<>>

validate_generated_content(text, topic_, qtype, level, expected) ==
    IF text \in {NoText, <<>>}
    THEN [overall_score |-> 0, checks |-> EmptyDict, warnings |-> <<>>,
          errors |-> <<Msg("No content generated", 0, 0)>>]
    ELSE
    LET questions_found == findall_count(question_pattern(TRUE), text)
        answers_found == findall_count(answer_pattern(TRUE), text)
        topic_keywords == LowerAll(topic_)
        lower == content_lower(text)
        topic_mentions == Mentions(topic_keywords, lower)
        lengths == answer_lengths(text)
        c1 == question_count_valid(questions_found, expected)
        c2 == answers_complete(answers_found, questions_found)
        c3 == topic_relevance(topic_mentions, Len(topic_keywords))
        c4 == IF level # "Mixed" THEN difficulty_appropriate(level, lower) ELSE TRUE
        c5 == question_type_compliance(qtype, text, lower)
        c6 == IF lengths # <<>> THEN answer_quality(lengths) ELSE FALSE
        score == AddScore(AddScore(AddScore(AddScore(AddScore(AddScore(0,
                     c1, 20), c2, 20), c3, 15), c4, 15), c5, 15), c6, 15)
        overall == Min(100, score)
        checks == ("questions_found" :> questions_found)
               @@ ("answers_found" :> answers_found)
               @@ ("expected_questions" :> expected)
               @@ ("question_count_valid" :> c1)
               @@ ("answers_complete" :> c2)
               @@ ("topic_relevance" :> c3)
               @@ ("difficulty_appropriate" :> c4)
               @@ ("question_type_compliance" :> c5)
               @@ (IF lengths # <<>>
                   THEN "average_answer_length" :>
                            [num |-> SumSeq(lengths), den |-> Len(lengths)]
                   ELSE EmptyDict)
               @@ ("answer_quality" :> c6)
        warnings ==
            MsgIf(~c3, Msg("Low topic relevance", topic_mentions, Len(topic_keywords)))
            \o MsgIf(~c4, Msg("Difficulty level may not match", 0, 0))
            \o MsgIf(~c5, IF qtype = "Code-based"
                          THEN Msg("Code-based questions may lack sufficient coding examples", 0, 0)
                          ELSE Msg("Theoretical questions may lack depth", 0, 0))
            \o MsgIf(lengths # <<>> /\ ~c6,
                     Msg("Answers may be too brief", SumSeq(lengths), Len(lengths)))
        errors ==
            MsgIf(~c1, Msg("Expected questions", expected, questions_found))
            \o MsgIf(~c2, Msg("Missing answers", questions_found - answers_found, 0))
            \o MsgIf(lengths = <<>>, Msg("Could not analyze answer quality", 0, 0))
    IN  [overall_score |-> overall, checks |-> checks, warnings |-> warnings,
         errors |-> errors, grade |-> Grade(overall), color |-> Color(overall)]

(***************************************************************************)
(* The texts the external model may return.  A generated text is a         *)
(* preamble followed by question/answer blocks; Render lays one out from   *)
(* its shape: nq headings, na answer labels, the letter case of both, the  *)
(* words of each answer, the phrases of the preamble and the number of     *)
(* fenced code blocks.                                                     *)
(***************************************************************************)
Max(a, b) == IF a >= b THEN a ELSE b

RECURSIVE Repeat(_, _)
Repeat(x, n) == IF n <= 0 THEN <<>> ELSE <<x>> \o Repeat(x, n - 1)

RenderBlock(s, i) ==
    (IF i <= s.nq
     THEN <<IF s.form \in {"asked", "label-case"} THEN Heading ELSE HeadingOtherCase,
            Words(5, {})>>
     ELSE <<>>)
    \o (IF i <= s.na
        THEN <<IF s.form \in {"asked", "heading-case"} THEN AnswerLabel
               ELSE AnswerLabelOtherCase,
               Words(s.words, {})>>
        ELSE <<>>)

RECURSIVE RenderBlocks(_, _)
RenderBlocks(s, i) ==
    IF i > Max(s.nq, s.na) THEN <<>> ELSE RenderBlock(s, i) \o RenderBlocks(s, i + 1)

Render(s) == <<Words(4, s.phr)>> \o Repeat(CodeBlock(3), s.cb) \o RenderBlocks(s, 1)

\* phrase sets around the thresholds of the indicator checks
Phrases1 == {"data", "basic", "simple", "fundamental", "explain", "analyze",
             "concept", "theory", "principle", "code", "function", "algorithm", "syntax"}
Phrases2 == {"data", "basic", "simple", "explain", "analyze", "implement",
             "concept", "theory", "code", "function", "algorithm", "syntax",
             "advanced", "complex", "evaluate"}

Vocabularies == {[phr |-> {}, cb |-> 0], [phr |-> Phrases1, cb |-> 2],
                 [phr |-> Phrases1, cb |-> 3], [phr |-> Phrases2, cb |-> 0]}

BlockCounts == {<<0, 0>>, <<0, 1>>, <<MaxBlocks - 3, MaxBlocks - 3>>,
                <<MaxBlocks - 2, MaxBlocks - 3>>, <<MaxBlocks, MaxBlocks \div 2>>,
                <<MaxBlocks, MaxBlocks - 1>>, <<MaxBlocks, MaxBlocks>>}

Forms == {[form |-> "asked", words |-> MaxWords],
          [form |-> "asked", words |-> MaxWords - 1],
          [form |-> "label-case", words |-> MaxWords],
          [form |-> "heading-case", words |-> MaxWords - 1]}

Shapes == {[nq |-> b[1], na |-> b[2], form |-> f.form, words |-> f.words,
            phr |-> v.phr, cb |-> v.cb] : b \in BlockCounts, f \in Forms, v \in Vocabularies}

Contents == {NoText, <<>>} \cup {Render(s) : s \in Shapes}

(***************************************************************************)
(* The request widgets of main().                                          *)
(***************************************************************************)
SliderMin == 10
SliderMax == 100
SliderStep == 5
SliderValues == {n \in SliderMin..SliderMax : (n - SliderMin) % SliderStep = 0}

QuestionTypes == {"Theoretical", "Code-based"}
DifficultyLevels == {"Easy", "Medium", "Hard", "Mixed"}
Topics == {<<>>, <<"Data", "Structures">>, <<"Data", "Structures", "Trees">>}

(***************************************************************************)
(* Direct calls of validate_generated_content on arbitrary arguments.      *)
(***************************************************************************)
Idle ==
    /\ api_key = "" /\ filename = "" /\ counts = None /\ tier = 0
    /\ tier_result = <<>> /\ questions_parts = <<>> /\ questions_content = NoText
    /\ file_path = NoPath /\ ui = <<>> /\ call = None

InitValidate ==
    /\ Idle
    /\ pc = "v_idle"
    /\ content = <<>> /\ topic = <<>> /\ question_type = "Theoretical"
    /\ difficulty_level = "Easy" /\ num_questions = SliderMin
    /\ validation_results = None
    /\ prev = None

UnchangedMain ==
    UNCHANGED <<api_key, filename, counts, tier, tier_result, questions_parts,
                questions_content, file_path, ui, call>>

ChooseArguments ==
    /\ pc = "v_idle"
    /\ content' \in Contents
    /\ topic' \in Topics
    /\ question_type' \in QuestionTypes
    /\ difficulty_level' \in DifficultyLevels
    /\ num_questions' \in {n \in SliderValues : n <= MaxExpected}
    /\ pc' = "v_call"
    /\ UNCHANGED <<validation_results, prev>>
    /\ UnchangedMain

CallValidate ==
    /\ pc = "v_call"
    /\ validation_results' =
           validate_generated_content(content, topic, question_type,
                                      difficulty_level, num_questions)
    /\ pc' = "v_done"
    /\ UNCHANGED <<content, topic, question_type, difficulty_level, num_questions, prev>>
    /\ UnchangedMain

CheckNames == {"question_count_valid", "answers_complete", "topic_relevance",
               "difficulty_appropriate", "question_type_compliance", "answer_quality"}

PassedChecks(report) == {c \in CheckNames \cap DOMAIN report.checks : report.checks[c]}

Forget ==
    /\ content' = <<>> /\ topic' = <<>> /\ question_type' = "Theoretical"
    /\ difficulty_level' = "Easy" /\ num_questions' = SliderMin
    /\ validation_results' = None
    /\ pc' = "v_idle"
    /\ UnchangedMain

\* the report is dropped; the next call makes a new one
NextCall ==
    /\ pc = "v_done"
    /\ Forget
    /\ UNCHANGED prev

\* the same, remembering how many checks the dropped report passed and its score
NextCallRemember ==
    /\ pc = "v_done"
    /\ Forget
    /\ prev' = IF content \in {NoText, <<>>} THEN prev
               ELSE [passed |-> Cardinality(PassedChecks(validation_results)),
                     score |-> validation_results.overall_score]

NextValidate == ChooseArguments \/ CallValidate \/ NextCall
SpecValidate == InitValidate /\ [][NextValidate]_vars

NextPairs == ChooseArguments \/ CallValidate \/ NextCallRemember
SpecPairs == InitValidate /\ [][NextPairs]_vars

(***************************************************************************)
(* generate_questions: the fallback over the model identifiers.            *)
(***************************************************************************)
model_names == <<"gemini-1.5-pro", "gemini-1.5-flash", "gemini-2.0-flash",
                 "models/gemini-1.5-pro", "models/gemini-1.5-flash">>

\* what the run shows: st.error, st.warning, st.success, st.info, widgets
Show(kind, text) == [kind |-> kind, text |-> text]

\* configure_gemini_api(): True exactly when the credential is a non-empty string
configure_gemini_api_NoCheck(key) == TRUE
configure_gemini_api(key) == key # ""

\* a value is truthy in `if x:` when it is neither None nor the empty string
Truthy_NotNone(x) == x # NoText
Truthy(x) == x # NoText /\ x # <<>>

\* a call that resumes the list where the previous call stopped
BeginCall_KeepsIndex(level, n) ==
    [level |-> level, n |-> n,
     idx |-> IF call = None THEN 1 ELSE Max(1, Len(call.attempted)),
     error_messages |-> <<>>, attempted |-> <<>>, result |-> NoText,
     status |-> IF configure_gemini_api(api_key) THEN "running" ELSE "refused"]

\* the locals of a call of generate_questions as it reaches its first attempt,
\* or as it returns None because the credential is missing
BeginCall(level, n) ==
    IF configure_gemini_api(api_key)
    THEN [level |-> level, n |-> n, idx |-> 1, error_messages |-> <<>>,
          attempted |-> <<>>, result |-> NoText, status |-> "running"]
    ELSE [level |-> level, n |-> n, idx |-> 1, error_messages |-> <<>>,
          attempted |-> <<>>, result |-> NoText, status |-> "refused"]

\* the attempt on model_names[idx] raised: the message is kept, the loop goes on
AttemptRaised_NoContinue(c) ==
    [c EXCEPT !.error_messages = Append(@, Msg(model_names[c.idx], 0, 0)),
              !.attempted = Append(@, model_names[c.idx]),
              !.idx = @ + 1,
              !.status = "failed"]

AttemptRaised(c) ==
    [c EXCEPT !.error_messages = Append(@, Msg(model_names[c.idx], 0, 0)),
              !.attempted = Append(@, model_names[c.idx]),
              !.idx = @ + 1,
              !.status = IF c.idx + 1 > Len(model_names) THEN "failed" ELSE "running"]

\* the attempt on model_names[idx] returned response.text
AttemptReturned(c, text) ==
    [c EXCEPT !.attempted = Append(@, model_names[c.idx]),
              !.result = text,
              !.status = "returned"]

\* what generate_questions shows when every model failed
RECURSIVE ShowErrors(_)
ShowErrors(msgs) ==
    IF msgs = <<>> THEN <<>>
    ELSE <<Show("error", Head(msgs).msg)>> \o ShowErrors(Tail(msgs))

AllFailedShown(c) ==
    <<Show("error", "Failed to generate content with all available models:")>>
    \o ShowErrors(c.error_messages)

(***************************************************************************)
(* main(): the Mixed split, the concatenation, saving and validation.      *)
(***************************************************************************)
Tiers == <<"Easy", "Medium", "Hard">>

\* easy_count, medium_count, hard_count
MixedCounts_HardByDivision(n) ==
    [Easy |-> n \div 3, Medium |-> n \div 3, Hard |-> n \div 3]

MixedCounts(n) ==
    LET easy_count == n \div 3
        medium_count == n \div 3
    IN  [Easy |-> easy_count, Medium |-> medium_count,
         Hard |-> n - easy_count - medium_count]

\* f"# {level} Level Questions\n\n{text}": four words, the level's name among them
LevelHeader(level) ==
    Tok("TXT", 4, {CASE level = "Easy" -> "easy" [] level = "Medium" -> "medium"
                     [] OTHER -> "hard"})
Section(level, text) == <<LevelHeader(level)>> \o text

\* the delimiter "\n\n---\n\n": one word
Delimiter == Tok("TXT", 1, {})

\* "\n\n---\n\n".join(parts)
RECURSIVE Join_NoDelimiter(_)
Join_NoDelimiter(parts) ==
    IF parts = <<>> THEN <<>> ELSE Head(parts) \o Join_NoDelimiter(Tail(parts))

RECURSIVE Join(_)
Join(parts) ==
    IF parts = <<>> THEN <<>>
    ELSE IF Len(parts) = 1 THEN parts[1]
    ELSE parts[1] \o <<Delimiter>> \o Join(Tail(parts))

\* save_to_markdown's file name: '.md' is appended unless it ends the name
EndsWithMd(name) == name \in {"questions.md"}
WithMd(name) == IF EndsWithMd(name) THEN name
                ELSE IF name = "questions" THEN "questions.md" ELSE name

\* the lines of main() after a successful save, with the offer made at 70 as well
AfterSave_OfferAtSeventy(path, report) ==
    <<Show("success", "Questions generated successfully!"), Show("info", path),
      Show("report", "validation results")>>
    \o (IF report.overall_score <= 70
        THEN <<Show("warning", "The generated content quality is below optimal standards."),
               Show("button", "Regenerate Questions")>>
        ELSE <<>>)
    \o <<Show("preview", "questions_content"), Show("download", WithMd(filename))>>

\* the lines of main() after a successful save
AfterSave(path, report) ==
    <<Show("success", "Questions generated successfully!"), Show("info", path),
      Show("report", "validation results")>>
    \o (IF report.overall_score < 70
        THEN <<Show("warning", "The generated content quality is below optimal standards."),
               Show("button", "Regenerate Questions")>>
        ELSE <<>>)
    \o <<Show("preview", "questions_content"), Show("download", WithMd(filename))>>

Responses == {<<>>,
              Render([nq |-> MaxBlocks, na |-> MaxBlocks, form |-> "asked",
                      words |-> MaxWords, phr |-> Phrases1, cb |-> 3]),
              Render([nq |-> MaxBlocks - 2, na |-> MaxBlocks - 3, form |-> "asked",
                      words |-> MaxWords - 1, phr |-> {}, cb |-> 0])}

Filenames == {"", "questions", "questions.md"}

Init ==
    /\ api_key \in {"", "key"}
    /\ topic \in Topics
    /\ question_type \in QuestionTypes
    /\ difficulty_level \in DifficultyLevels
    /\ num_questions \in SliderValues
    /\ filename \in Filenames
    /\ pc = "form"
    /\ counts = None /\ tier = 0 /\ tier_result = <<>>
    /\ questions_parts = <<>> /\ questions_content = NoText
    /\ file_path = NoPath /\ validation_results = None
    /\ ui = <<>> /\ call = None
    /\ content = <<>> /\ prev = None

UnchangedWidgets ==
    UNCHANGED <<api_key, topic, question_type, difficulty_level, num_questions,
                filename, content, prev>>

\* the page without a credential: the form is not rendered
NoCredential ==
    /\ pc = "form"
    /\ api_key = ""
    /\ ui' = <<Show("error", "Gemini API key not found!"),
               Show("error", "Cannot proceed without Gemini API key")>>
    /\ pc' = "end"
    /\ UNCHANGED <<counts, tier, tier_result, questions_parts, questions_content,
                   file_path, validation_results, call>>
    /\ UnchangedWidgets

\* the Generate button, up to the first call of generate_questions
ClickGenerate ==
    /\ pc = "form"
    /\ api_key # ""
    /\ IF topic = <<>>
       THEN /\ ui' = <<Show("error", "Please enter a topic")>>
            /\ pc' = "end"
            /\ UNCHANGED <<counts, tier, call>>
       ELSE IF filename = ""
       THEN /\ ui' = <<Show("error", "Please enter a filename")>>
            /\ pc' = "end"
            /\ UNCHANGED <<counts, tier, call>>
       ELSE IF difficulty_level = "Mixed"
       THEN /\ counts' = MixedCounts(num_questions)
            /\ tier' = 1
            /\ call' = BeginCall(Tiers[1], MixedCounts(num_questions)[Tiers[1]])
            /\ pc' = "generate"
            /\ UNCHANGED ui
       ELSE /\ call' = BeginCall(difficulty_level, num_questions)
            /\ pc' = "generate"
            /\ UNCHANGED <<counts, tier, ui>>
    /\ UNCHANGED <<tier_result, questions_parts, questions_content, file_path,
                   validation_results>>
    /\ UnchangedWidgets

\* main() from the return of generate_questions to its next call, or to the save
Returned(c, shown) ==
    /\ call' = c
    /\ IF difficulty_level = "Mixed"
       THEN LET parts == IF Truthy(c.result)
                         THEN Append(questions_parts, Section(c.level, c.result))
                         ELSE questions_parts
            IN  /\ tier_result' = Append(tier_result, c.result)
                /\ questions_parts' = parts
                /\ IF tier < Len(Tiers)
                   THEN /\ pc' = "next_tier"
                        /\ UNCHANGED questions_content
                   ELSE /\ questions_content' = Join(parts)
                        /\ pc' = IF Truthy(Join(parts)) THEN "save" ELSE "end"
       ELSE /\ questions_content' = c.result
            /\ pc' = IF Truthy(c.result) THEN "save" ELSE "end"
            /\ UNCHANGED <<tier_result, questions_parts>>
    /\ ui' = ui \o shown
    /\ UNCHANGED <<counts, tier, file_path, validation_results>>
    /\ UnchangedWidgets

\* generate_questions returns None at once: the credential is missing
Refused ==
    /\ pc = "generate"
    /\ call.status = "refused"
    /\ Returned([call EXCEPT !.status = "refused-returned"],
                <<Show("error", "Error configuring Gemini API")>>)

\* one attempt of the loop: the call of the external model raises
AttemptFails ==
    /\ pc = "generate"
    /\ call.status = "running"
    /\ LET c == AttemptRaised(call)
       IN  IF c.status = "failed"
           THEN Returned(c, AllFailedShown(c))
           ELSE /\ call' = c
                /\ UNCHANGED <<pc, counts, tier, tier_result, questions_parts,
                               questions_content, file_path, validation_results, ui>>
                /\ UnchangedWidgets

\* one attempt of the loop: the call of the external model returns a text
AttemptSucceeds ==
    /\ pc = "generate"
    /\ call.status = "running"
    /\ \E text \in Responses : Returned(AttemptReturned(call, text), <<>>)

\* the next sub-call of the Mixed path
NextTier ==
    /\ pc = "next_tier"
    /\ tier' = tier + 1
    /\ call' = BeginCall(Tiers[tier + 1], counts[Tiers[tier + 1]])
    /\ pc' = "generate"
    /\ UNCHANGED <<counts, tier_result, questions_parts, questions_content,
                   file_path, validation_results, ui>>
    /\ UnchangedWidgets

\* save_to_markdown fails: the error is shown and nothing else happens
SaveFails_StillShows ==
    /\ pc = "save"
    /\ file_path' = NoPath
    /\ ui' = ui \o <<Show("error", "Error saving file"),
                     Show("preview", "questions_content"),
                     Show("download", WithMd(filename))>>
    /\ pc' = "end"
    /\ UNCHANGED <<counts, tier, tier_result, questions_parts, questions_content,
                   validation_results, call>>
    /\ UnchangedWidgets

SaveFails ==
    /\ pc = "save"
    /\ file_path' = NoPath
    /\ ui' = ui \o <<Show("error", "Error saving file")>>
    /\ pc' = "end"
    /\ UNCHANGED <<counts, tier, tier_result, questions_parts, questions_content,
                   validation_results, call>>
    /\ UnchangedWidgets

\* save_to_markdown succeeds: validation, report, preview and download follow
SaveSucceeds ==
    /\ pc = "save"
    /\ LET report == validate_generated_content(questions_content, topic, question_type,
                                                difficulty_level, num_questions)
       IN  /\ file_path' = WithMd(filename)
           /\ validation_results' = report
           /\ ui' = ui \o AfterSave(WithMd(filename), report)
    /\ pc' = "end"
    /\ UNCHANGED <<counts, tier, tier_result, questions_parts, questions_content, call>>
    /\ UnchangedWidgets

\* the Regenerate button: the script runs again from the form
ClickRegenerate ==
    /\ pc = "end"
    /\ \E i \in 1..Len(ui) : ui[i].kind = "button"
    /\ pc' = "form"
    /\ counts' = None /\ tier' = 0 /\ tier_result' = <<>>
    /\ questions_parts' = <<>> /\ questions_content' = NoText
    /\ file_path' = NoPath /\ validation_results' = None
    /\ ui' = <<>> /\ call' = None
    /\ UnchangedWidgets

Next ==
    \/ NoCredential
    \/ ClickGenerate
    \/ AttemptFails
    \/ AttemptSucceeds
    \/ NextTier
    \/ SaveFails
    \/ SaveSucceeds
    \/ ClickRegenerate

Spec == Init /\ [][Next]_vars

(***************************************************************************)
(* Direct calls of generate_questions, with or without the credential.     *)
(***************************************************************************)
InitGenerate ==
    /\ api_key \in {"", "key"}
    /\ topic \in {<<"Data", "Structures">>}
    /\ question_type \in QuestionTypes
    /\ difficulty_level \in {"Easy", "Medium", "Hard"}
    /\ num_questions \in {n \in SliderValues : n <= MaxExpected}
    /\ filename = ""
    /\ pc = "g_idle"
    /\ counts = None /\ tier = 0 /\ tier_result = <<>>
    /\ questions_parts = <<>> /\ questions_content = NoText
    /\ file_path = NoPath /\ validation_results = None
    /\ ui = <<>> /\ call = None
    /\ content = <<>> /\ prev = None

UnchangedByCall ==
    UNCHANGED <<api_key, topic, question_type, difficulty_level, num_questions,
                filename, counts, tier, tier_result, questions_parts,
                questions_content, file_path, validation_results, content, prev>>

\* generate_questions(topic, question_type, difficulty_level, num_questions) begins
DirectCall ==
    /\ pc = "g_idle"
    /\ call' = BeginCall(difficulty_level, num_questions)
    /\ pc' = "g_call"
    /\ UNCHANGED ui
    /\ UnchangedByCall

\* configure_gemini_api() failed: the error is shown and None is returned at once
DirectRefused ==
    /\ pc = "g_call"
    /\ call.status = "refused"
    /\ call' = [call EXCEPT !.status = "refused-returned"]
    /\ ui' = ui \o <<Show("error", "Error configuring Gemini API")>>
    /\ pc' = "g_done"
    /\ UnchangedByCall

\* one attempt of the loop raises; after the last one the failures are shown
DirectAttemptFails ==
    /\ pc = "g_call"
    /\ call.status = "running"
    /\ LET c == AttemptRaised(call)
       IN  /\ call' = c
           /\ ui' = IF c.status = "failed" THEN ui \o AllFailedShown(c) ELSE ui
           /\ pc' = IF c.status = "failed" THEN "g_done" ELSE "g_call"
    /\ UnchangedByCall

\* one attempt of the loop returns a text
DirectAttemptSucceeds ==
    /\ pc = "g_call"
    /\ call.status = "running"
    /\ \E text \in Responses : call' = AttemptReturned(call, text)
    /\ pc' = "g_done"
    /\ UNCHANGED ui
    /\ UnchangedByCall

NextGenerate ==
    \/ DirectCall
    \/ DirectRefused
    \/ DirectAttemptFails
    \/ DirectAttemptSucceeds

\* the page and direct calls of generate_questions, side by side
SpecGenerate == (Init \/ InitGenerate) /\ [][Next \/ NextGenerate]_vars

(***************************************************************************)
(* Properties.                                                             *)
(***************************************************************************)
Validated == pc = "v_done" /\ content \notin {NoText, <<>>}

Shown(kind) == \E i \in 1..Len(ui) : ui[i].kind = kind

\* the points of each check
Points(c) == IF c \in {"question_count_valid", "answers_complete"} THEN 20 ELSE 15

RECURSIVE SumPoints(_)
SumPoints(cs) ==
    IF cs = {} THEN 0
    ELSE LET c == CHOOSE x \in cs : TRUE IN Points(c) + SumPoints(cs \ {c})

\* C1: on non-empty content the grade is a function of the score alone: Excellent
\* from 85, Good from 70 to 84, Fair from 50 to 69, Poor below 50; so 49 is Poor,
\* 50 Fair, 70 Good, 84 Good, 85 Excellent and 100 Excellent.
C1_GradeFollowsScore ==
    /\ Grade(49) = "Poor" /\ Grade(50) = "Fair" /\ Grade(70) = "Good"
    /\ Grade(84) = "Good" /\ Grade(85) = "Excellent" /\ Grade(100) = "Excellent"
    /\ Validated =>
         LET s == validation_results.overall_score
             g == validation_results.grade
         IN  /\ s \in 0..100
             /\ (g = "Excellent") <=> (s >= 85)
             /\ (g = "Good") <=> (70 <= s /\ s < 85)
             /\ (g = "Fair") <=> (50 <= s /\ s < 70)
             /\ (g = "Poor") <=> (s < 50)

C1_Witness ==
    /\ Validated
    /\ validation_results.overall_score = 85
    /\ validation_results.grade = "Excellent"

\* C2: the validator on empty or absent content returns overall_score 0, grade Poor and a
\* non-empty errors list.
C2_EmptyContentReport ==
    (pc = "v_done" /\ content \in {NoText, <<>>}) =>
        /\ validation_results.overall_score = 0
        /\ validation_results.errors # <<>>
        /\ "grade" \in DOMAIN validation_results
        /\ validation_results.grade = "Poor"

\* C3: on non-empty content overall_score is the sum of the points of the checks
\* that passed (20, 20, 15, 15, 15, 15), a failed check adding 0; the sum is within
\* 0..100, so the clamp to 100 changes nothing.
C3_ScoreIsSumOfPassed ==
    Validated =>
        LET total == SumPoints(PassedChecks(validation_results))
        IN  /\ CheckNames \subseteq DOMAIN validation_results.checks
            /\ total \in 0..100
            /\ validation_results.overall_score = total

C3_Witness ==
    /\ Validated
    /\ PassedChecks(validation_results) =
           {"question_count_valid", "topic_relevance", "answer_quality"}
    /\ validation_results.overall_score = 50

\* C4: of two reports on non-empty content, the one with more passed checks never
\* has the lower overall_score.
C4_ScoreMonotonic ==
    (Validated /\ prev # None) =>
        LET passed == Cardinality(PassedChecks(validation_results))
            score == validation_results.overall_score
        IN  /\ prev.passed < passed => prev.score <= score
            /\ prev.passed > passed => prev.score >= score

C4_Witness ==
    /\ Validated /\ prev # None
    /\ prev.passed = 3 /\ prev.score = 55
    /\ Cardinality(PassedChecks(validation_results)) = 4
    /\ validation_results.overall_score = 60

\* C5: in a Mixed request of count N the sub-counts are easy = N \div 3,
\* medium = N \div 3 and hard = N - easy - medium: they sum to N and Hard takes the
\* whole remainder (hard - easy is 0, 1 or 2); 50 gives 16, 16, 18 and 10 gives
\* 3, 3, 4.  Each sub-call asks for its own sub-count.
SplitOk(n, c) ==
    /\ c.Easy = n \div 3
    /\ c.Medium = n \div 3
    /\ c.Easy + c.Medium + c.Hard = n
    /\ c.Hard - c.Easy = n % 3
    /\ c.Hard - c.Easy \in {0, 1, 2}

C5_MixedSplit ==
    /\ \A n \in SliderMin..SliderMax : SplitOk(n, MixedCounts(n))
    /\ MixedCounts(50) = [Easy |-> 16, Medium |-> 16, Hard |-> 18]
    /\ MixedCounts(10) = [Easy |-> 3, Medium |-> 3, Hard |-> 4]
    /\ (counts # None) <=> (difficulty_level = "Mixed" /\ pc \notin {"form"} /\ call # None)
    /\ counts # None =>
         /\ SplitOk(num_questions, counts)
         /\ call.level = Tiers[tier] /\ call.n = counts[call.level]

C5_Witness ==
    /\ difficulty_level = "Mixed" /\ num_questions = 50
    /\ counts # None /\ counts.Hard = 18
    /\ tier = 3 /\ call.n = 18

\* C6: generate_questions tries the model identifiers in list order; the first one
\* whose call returns supplies the result and none after it is tried; it fails only
\* when every identifier failed, and then shows one message per model, in order.
C6_FallbackOrder ==
    (call # None /\ call.status \in {"running", "returned", "failed"}) =>
        LET k == Len(call.attempted)
            e == Len(call.error_messages)
        IN  /\ k <= Len(model_names)
            /\ call.attempted = SubSeq(model_names, 1, k)
            /\ \A i \in 1..e : call.error_messages[i].msg = model_names[i]
            /\ call.status = "running" =>
                 e = k /\ k < Len(model_names) /\ call.idx = k + 1 /\ call.result = NoText
            /\ call.status = "returned" =>
                 k >= 1 /\ e = k - 1 /\ call.result \in Responses
            /\ call.status = "failed" =>
                 /\ call.attempted = model_names
                 /\ e = Len(model_names)
                 /\ call.result = NoText
                 /\ \E j \in 1..Len(ui) :
                      /\ j + e <= Len(ui)
                      /\ ui[j].kind = "error"
                      /\ ui[j].text = "Failed to generate content with all available models:"
                      /\ \A i \in 1..e : ui[j + i] = [kind |-> "error", text |-> model_names[i]]

C6_Witness ==
    /\ call # None
    /\ call.status = "returned"
    /\ call.attempted = <<"gemini-1.5-pro", "gemini-1.5-flash", "gemini-2.0-flash">>
    /\ Len(call.error_messages) = 2

MixedDone == difficulty_level = "Mixed" /\ Len(tier_result) = 3

NonEmptyResult(i) == tier_result[i] # NoText /\ tier_result[i] # <<>>

HeaderOf(i) ==
    [k |-> "TXT", n |-> 4,
     has |-> {CASE i = 1 -> "easy" [] i = 2 -> "medium" [] OTHER -> "hard"}]

SectionWhen(ok, i) == IF ok THEN <<HeaderOf(i)>> \o tier_result[i] ELSE <<>>

Between(a, b) == IF a # <<>> /\ b # <<>> THEN <<[k |-> "TXT", n |-> 1, has |-> {}]>> ELSE <<>>

Combined(s1, s2, s3) == s1 \o Between(s1, s2 \o s3) \o s2 \o Between(s2, s3) \o s3

\* C7 as stated: the combined content of a Mixed run is the sections of the
\* sub-calls that succeeded (returned a text), in the order Easy, Medium, Hard, each
\* under its level header, joined by the delimiter.
C7_SectionsOfSucceededCalls ==
    MixedDone =>
        questions_content = Combined(SectionWhen(tier_result[1] # NoText, 1),
                                     SectionWhen(tier_result[2] # NoText, 2),
                                     SectionWhen(tier_result[3] # NoText, 3))

\* C7 amended: the combined content of a Mixed run is the sections of the sub-calls
\* that returned a non-empty text, in the order Easy, Medium, Hard, each under its
\* level header, joined by the delimiter; a sub-call that failed or returned an
\* empty text adds no section and leaves the others as they are.
C7_SectionsOfNonEmptyResults ==
    MixedDone =>
        questions_content = Combined(SectionWhen(NonEmptyResult(1), 1),
                                     SectionWhen(NonEmptyResult(2), 2),
                                     SectionWhen(NonEmptyResult(3), 3))

C7_Witness ==
    /\ MixedDone
    /\ NonEmptyResult(1) /\ tier_result[2] = NoText /\ NonEmptyResult(3)
    /\ Len(questions_parts) = 2

\* what a Mixed run does when at least one tier gave a section: it goes on to the
\* save, and after a successful save to the report
MixedGoesOn ==
    (MixedDone /\ \E i \in 1..3 : NonEmptyResult(i)) =>
        /\ pc \in {"save", "end"}
        /\ questions_content \notin {NoText, <<>>}
        /\ (pc = "end" /\ file_path # NoPath) =>
               validation_results # None /\ Shown("report")

\* C8 as stated: a Mixed run goes on when one or two tiers fail; when all three fail
\* the combined content is empty and the validator reports it as its empty-content
\* case: a report with score 0 and the structural error.
C8_AllTiersFailReported ==
    /\ MixedGoesOn
    /\ (MixedDone /\ pc = "end" /\ \A i \in 1..3 : tier_result[i] = NoText) =>
           /\ questions_content = <<>>
           /\ validation_results # None
           /\ validation_results.overall_score = 0
           /\ validation_results.errors # <<>>

\* C8 amended: a Mixed run goes on when one or two tiers fail; when all three fail
\* (or return an empty text) the combined content is empty and the run stops there:
\* nothing is saved, the validator is not called and no report is shown.
C8_AllTiersFailStops ==
    /\ MixedGoesOn
    /\ (MixedDone /\ \A i \in 1..3 : ~NonEmptyResult(i)) =>
           /\ pc = "end"
           /\ questions_content = <<>>
           /\ file_path = NoPath
           /\ validation_results = None
           /\ ~Shown("report") /\ ~Shown("preview") /\ ~Shown("download")

C8_Witness ==
    /\ MixedDone /\ pc = "end"
    /\ \A i \in 1..3 : tier_result[i] = NoText
    /\ questions_content = <<>>
    /\ validation_results = None
    /\ Len(ui) = 3 * (1 + Len(model_names))

\* the run ended after save_to_markdown failed
SaveFailed == pc = "end" /\ questions_content \notin {NoText, <<>>} /\ file_path = NoPath

\* C9 as stated: when the save fails the error is shown and the generated content
\* is still previewed and offered for download in that run.
C9_SaveFailureKeepsResult ==
    SaveFailed =>
        /\ Shown("error")
        /\ Shown("preview")
        /\ Shown("download")

\* C9 amended: when the save fails the error is shown and the run ends there: the
\* content is neither validated, previewed nor offered for download.
C9_SaveFailureShowsOnlyError ==
    SaveFailed =>
        /\ ui # <<>>
        /\ ui[Len(ui)] = [kind |-> "error", text |-> "Error saving file"]
        /\ validation_results = None
        /\ ~Shown("report") /\ ~Shown("preview") /\ ~Shown("download")

C9_Witness ==
    /\ SaveFailed
    /\ ui[Len(ui)].text = "Error saving file"
    /\ call.status = "returned"

RawValues == {"questions_found", "answers_found", "expected_questions"}

\* C10 as stated: the checks of a report on non-empty content hold questions_found,
\* answers_found, expected_questions and average_answer_length beside the pass/fail
\* entry of each check.
C10_RawValuesAlwaysKept ==
    Validated =>
        (RawValues \cup {"average_answer_length"} \cup CheckNames)
            \subseteq DOMAIN validation_results.checks

\* C10 amended: the checks of a report on non-empty content hold questions_found,
\* answers_found and expected_questions beside the pass/fail entry of each check;
\* average_answer_length is there exactly when the content holds at least one
\* "**Answer:**" label in that very letter case.
C10_RawValuesKept ==
    Validated =>
        LET checks == validation_results.checks
        IN  /\ (RawValues \cup CheckNames) \subseteq DOMAIN checks
            /\ \A c \in CheckNames : checks[c] \in BOOLEAN
            /\ checks["expected_questions"] = num_questions
            /\ checks["questions_found"] \in 0..Len(content)
            /\ checks["answers_found"] \in 0..Len(content)
            /\ ("average_answer_length" \in DOMAIN checks)
                   <=> (\E i \in 1..Len(content) : content[i].k = "ANS")

C10_Witness ==
    /\ Validated
    /\ validation_results.checks["answers_found"] > 0
    /\ "average_answer_length" \notin DOMAIN validation_results.checks

\* C11: without a credential (missing or empty) generate_questions returns its
\* failure without attempting any model identifier, and the page never reaches the
\* generate step.
C11_NoCredentialNoGeneration ==
    api_key = "" =>
        /\ pc \in {"form", "end", "g_idle", "g_call", "g_done"}
        /\ pc \in {"form", "end"} =>
               /\ call = None
               /\ questions_content = NoText
               /\ \A i \in 1..Len(ui) : ui[i].kind = "error"
        /\ call # None =>
               /\ call.status \in {"refused", "refused-returned"}
               /\ call.attempted = <<>>
               /\ call.error_messages = <<>>
               /\ call.result = NoText
        /\ pc = "g_done" =>
               /\ call.status = "refused-returned"
               /\ ui = <<[kind |-> "error", text |-> "Error configuring Gemini API"]>>

C11_Witness ==
    /\ api_key = ""
    /\ pc = "g_done"
    /\ call.status = "refused-returned"
    /\ call.attempted = <<>>

AfterValidation == pc = "end" /\ validation_results # None

\* C12: a validation never stops the page: whatever the report holds, the preview and
\* the download follow it. The Regenerate button is shown exactly when the report's
\* overall_score is below 70, which is exactly when its grade is Fair or Poor; it is
\* never shown for a score of 70 or more, nor without a report.
C12_RegenerateBelowSeventy ==
    /\ AfterValidation =>
          /\ Shown("button") <=> validation_results.overall_score < 70
          /\ Shown("button") <=> validation_results.grade \in {"Fair", "Poor"}
          /\ Shown("report") /\ Shown("preview") /\ Shown("download")
          /\ ui[Len(ui)].kind = "download"
    /\ validation_results = None => ~Shown("button")

C12_Witness ==
    /\ AfterValidation /\ validation_results.overall_score = 70
    /\ validation_results.warnings # <<>> /\ ~Shown("button") /\ Shown("download")

\* how many entries of a warnings or errors list carry the message
CountMsg(list, text) == Cardinality({i \in 1..Len(list) : list[i].msg = text})

OnceIf(fails, list, other, text) ==
    /\ CountMsg(list, text) = (IF fails THEN 1 ELSE 0)
    /\ CountMsg(other, text) = 0

TypeWarning ==
    IF question_type = "Code-based"
    THEN "Code-based questions may lack sufficient coding examples"
    ELSE "Theoretical questions may lack depth"

\* C13: on non-empty content every failed check appends exactly one message and every
\* passed check none: an error for the question count, for the answer completeness
\* and for the answer quality without answer segments; a warning for the topic
\* relevance, the difficulty, the question type and for the answer quality below its
\* threshold. So the two lists together hold as many entries as checks failed.
C13_OneMessagePerFailedCheck ==
    Validated =>
        LET r == validation_results
            c == r.checks
            segments == "average_answer_length" \in DOMAIN c
        IN  /\ OnceIf(~c.question_count_valid, r.errors, r.warnings, "Expected questions")
            /\ OnceIf(~c.answers_complete, r.errors, r.warnings, "Missing answers")
            /\ OnceIf(~c.answer_quality /\ ~segments, r.errors, r.warnings,
                      "Could not analyze answer quality")
            /\ OnceIf(~c.topic_relevance, r.warnings, r.errors, "Low topic relevance")
            /\ OnceIf(~c.difficulty_appropriate, r.warnings, r.errors,
                      "Difficulty level may not match")
            /\ OnceIf(~c.question_type_compliance, r.warnings, r.errors, TypeWarning)
            /\ OnceIf(~c.answer_quality /\ segments, r.warnings, r.errors,
                      "Answers may be too brief")
            /\ Len(r.errors) + Len(r.warnings) = 6 - Cardinality(PassedChecks(r))

C13_Witness ==
    /\ Validated
    /\ Len(validation_results.errors) = 2 /\ Len(validation_results.warnings) = 4
    /\ PassedChecks(validation_results) = {}

\* the headings and the labels of the content, counted on the text itself
HeadingsIn(text) == Cardinality({i \in 1..Len(text) : text[i].k \in {"QH", "qh"}})
LabelsIn(text) == Cardinality({i \in 1..Len(text) : text[i].k \in {"ANS", "ans"}})

MissingAnswers(report) ==
    {i \in 1..Len(report.errors) : report.errors[i].msg = "Missing answers"}

\* C14: the answer-completeness check passes, for 20 points, exactly when
\* answers_found >= 0.9 x questions_found; when it fails it appends one error that
\* quotes questions_found - answers_found, which is then positive. 10 questions with
\* 10 answers for 10 expected pass this check and the question count (40 points);
\* 10 questions with 5 answers fail and the error quotes 5.
C14_AnswersComplete ==
    Validated =>
        LET r == validation_results
            q == HeadingsIn(content)
            a == LabelsIn(content)
        IN  /\ r.checks.questions_found = q /\ r.checks.answers_found = a
            /\ r.checks.answers_complete <=> 10 * a >= 9 * q
            /\ r.checks.answers_complete => MissingAnswers(r) = {}
            /\ ~r.checks.answers_complete =>
                  /\ Cardinality(MissingAnswers(r)) = 1
                  /\ \A i \in MissingAnswers(r) : r.errors[i].a = q - a /\ r.errors[i].a > 0
            /\ PassedChecks(r) = {"answers_complete"} => r.overall_score = 20
            /\ (q = 10 /\ a = 10 /\ num_questions = 10) =>
                  /\ {"question_count_valid", "answers_complete"} \subseteq PassedChecks(r)
                  /\ r.overall_score >= 40
                  /\ PassedChecks(r) = {"question_count_valid", "answers_complete"}
                        => r.overall_score = 40
            /\ (q = 10 /\ a = 5) =>
                  /\ ~r.checks.answers_complete
                  /\ \A i \in MissingAnswers(r) : r.errors[i].a = 5

C14_Witness ==
    /\ Validated
    /\ HeadingsIn(content) = 10 /\ LabelsIn(content) = 5
    /\ \E i \in MissingAnswers(validation_results) : validation_results.errors[i].a = 5

\* the labels that the split at line 204 sees: those written **Answer:** exactly
ExactLabelsIn(text) == Cardinality({i \in 1..Len(text) : text[i].k = "ANS"})

Analysed(report) == "average_answer_length" \in DOMAIN report.checks

\* C15: with n >= 1 answer segments whose word counts total S the answer-quality check
\* passes, for 15 points, exactly when S >= 30 x n, and below that appends the warning
\* about brief answers; one segment of 30 words passes and one of 29 words fails with
\* the warning. With no answer segment it fails with the error and no warning.
C15_AnswerQualityInclusive ==
    Validated =>
        LET r == validation_results
            c == r.checks
        IN  /\ Analysed(r) <=> ExactLabelsIn(content) >= 1
            /\ Analysed(r) =>
                  LET n == c.average_answer_length.den
                      S == c.average_answer_length.num
                  IN  /\ n = ExactLabelsIn(content)
                      /\ c.answer_quality <=> S >= 30 * n
                      /\ CountMsg(r.errors, "Could not analyze answer quality") = 0
                      /\ CountMsg(r.warnings, "Answers may be too brief")
                            = (IF S >= 30 * n THEN 0 ELSE 1)
                      /\ \A i \in 1..Len(r.warnings) :
                            r.warnings[i].msg = "Answers may be too brief"
                                => r.warnings[i].a = S /\ r.warnings[i].b = n
                      /\ (n = 1 /\ S = 30) => c.answer_quality
                      /\ (n = 1 /\ S = 29) => ~c.answer_quality
            /\ ~Analysed(r) =>
                  /\ ~c.answer_quality
                  /\ CountMsg(r.errors, "Could not analyze answer quality") = 1
                  /\ CountMsg(r.warnings, "Answers may be too brief") = 0
            /\ PassedChecks(r) = {"answer_quality"} => r.overall_score = 15
            /\ PassedChecks(r) = CheckNames \ {"answer_quality"} => r.overall_score = 85

C15_Witness ==
    /\ Validated /\ Analysed(validation_results)
    /\ validation_results.checks.average_answer_length = [num |-> 30, den |-> 1]
    /\ validation_results.checks.answer_quality

\* the words of the topic whose lower-case form occurs in the lower-cased content
TopicWordsIn(text) == {i \in 1..Len(topic) : Lower(topic[i]) \in content_lower(text)}

\* C16: with k whitespace-separated words in the lower-cased topic, m of them
\* occurring in the lower-cased content, the topic-relevance check passes, for 15
\* points, exactly when 2 x m >= k, and otherwise appends one warning quoting m and
\* k; the topic "Data Structures" against content holding only "data" passes.
C16_TopicRelevanceInclusive ==
    Validated =>
        LET r == validation_results
            k == Len(topic)
            m == Cardinality(TopicWordsIn(content))
        IN  /\ r.checks.topic_relevance <=> 2 * m >= k
            /\ CountMsg(r.warnings, "Low topic relevance") = (IF 2 * m >= k THEN 0 ELSE 1)
            /\ \A i \in 1..Len(r.warnings) :
                  r.warnings[i].msg = "Low topic relevance"
                      => r.warnings[i].a = m /\ r.warnings[i].b = k
            /\ (topic = <<"Data", "Structures">> /\ m = 1) => r.checks.topic_relevance
            /\ PassedChecks(r) = {"topic_relevance"} => r.overall_score = 15
            /\ PassedChecks(r) = CheckNames \ {"topic_relevance"} => r.overall_score = 85

C16_Witness ==
    /\ Validated /\ topic = <<"Data", "Structures">>
    /\ "data" \in content_lower(content) /\ "structures" \notin content_lower(content)
    /\ validation_results.checks.topic_relevance

\* the indicator phrases of a level, as the set the source lists
IndicatorPhrases(level) ==
    CASE level = "Easy" ->
           {"basic", "simple", "fundamental", "introduction", "what is", "define"}
      [] level = "Medium" ->
           {"explain", "compare", "analyze", "implement", "design", "optimize"}
      [] level = "Hard" ->
           {"advanced", "complex", "sophisticated", "evaluate", "synthesize",
            "architect", "critique"}

\* C17: for the difficulty Mixed the difficulty check is skipped and passes on every
\* non-empty content, whatever indicator phrases it holds: difficulty_appropriate is
\* true, its 15 points are added and no warning about the difficulty is appended.
\* For Easy, Medium and Hard it passes exactly when at least 3 of that level's
\* indicator phrases occur in the lower-cased content, and otherwise appends one
\* warning.
C17_MixedSkipsDifficulty ==
    Validated =>
        LET r == validation_results
            lower == content_lower(content)
        IN  /\ difficulty_level = "Mixed" =>
                  /\ r.checks.difficulty_appropriate
                  /\ CountMsg(r.warnings, "Difficulty level may not match") = 0
                  /\ r.overall_score >= 15
                  /\ r.overall_score = SumPoints(PassedChecks(r))
            /\ difficulty_level # "Mixed" =>
                  LET found == Cardinality(IndicatorPhrases(difficulty_level) \cap lower)
                  IN  /\ r.checks.difficulty_appropriate <=> found >= 3
                      /\ CountMsg(r.warnings, "Difficulty level may not match")
                            = (IF found >= 3 THEN 0 ELSE 1)

C17_Witness ==
    /\ Validated /\ difficulty_level = "Mixed"
    /\ \A l \in {"Easy", "Medium", "Hard"} : IndicatorPhrases(l) \cap content_lower(content) = {}
    /\ PassedChecks(validation_results) = {"difficulty_appropriate"}
    /\ validation_results.overall_score = 15

InMixedRun == difficulty_level = "Mixed" /\ counts # None

\* where the Mixed path stands: one call at a time, for the tier in turn
TiersInOrder ==
    InMixedRun =>
        /\ tier \in 1..Len(Tiers) /\ call # None
        /\ call.level = Tiers[tier] /\ call.n = counts[Tiers[tier]]
        /\ call.attempted = SubSeq(model_names, 1, Len(call.attempted))
        /\ call.status = "failed" <=> Len(call.error_messages) = Len(model_names)
        /\ call.status = "failed" => call.attempted = model_names
        /\ pc = "generate" => /\ call.status = "running"
                              /\ call.idx = Len(call.attempted) + 1
                              /\ Len(tier_result) = tier - 1
        /\ pc = "next_tier" => /\ tier < Len(Tiers)
                               /\ call.status \in {"returned", "failed"}
                               /\ Len(tier_result) = tier
                               /\ tier_result[tier] = call.result
        /\ pc \in {"save", "end"} => /\ tier = Len(Tiers)
                                      /\ Len(tier_result) = Len(Tiers)
                                      /\ call.status \in {"returned", "failed"}

\* one step of the Mixed path: an attempt belongs to the running call of the tier in
\* turn, and the next tier's call begins only after this one finished, at the first
\* identifier
TierStep ==
    (InMixedRun /\ call # None /\ call' # None /\ tier' # 0) =>
        /\ Len(call'.attempted) > Len(call.attempted) =>
              /\ pc = "generate" /\ call.status = "running" /\ tier' = tier
              /\ Len(tier_result) = tier - 1
              /\ call'.attempted = Append(call.attempted, model_names[Len(call.attempted) + 1])
        /\ tier' # tier =>
              /\ tier' = tier + 1
              /\ call.status \in {"returned", "failed"}
              /\ Len(tier_result) = tier
              /\ call'.level = Tiers[tier + 1]
              /\ call'.idx = 1 /\ call'.attempted = <<>> /\ call'.error_messages = <<>>
              /\ call'.status = "running"
        /\ (pc = "next_tier" /\ pc' # pc) => tier' = tier + 1

\* C18: in the Mixed path the three calls run one after the other in the order Easy,
\* Medium, Hard: no attempt for a tier is made before the previous tier's call has
\* finished (returned a text, or failed on every identifier), each call goes through
\* the identifiers from the first one whatever the other calls did, and all three
\* calls are made even when an earlier one failed.
C18_MixedCallsSequential == []TiersInOrder /\ [][TierStep]_vars

C18_Witness ==
    /\ InMixedRun /\ pc = "save" /\ Len(tier_result) = 3
    /\ tier_result[1] = NoText /\ Truthy(tier_result[2]) /\ Truthy(tier_result[3])
    /\ call.level = "Hard" /\ Len(call.attempted) = 2

\* the number of answer segments the answer-quality check analysed
SegmentsAnalysed(report) ==
    IF Analysed(report) THEN report.checks.average_answer_length.den ELSE 0

\* C19: on non-empty content the answer-quality check analyses as many answer
\* segments as the answer-completeness check counts answers, so the error "Could not
\* analyze answer quality" is in the report exactly when answers_found = 0, also for
\* labels written in another letter case.
C19_ScansAgree ==
    Validated =>
        LET r == validation_results
        IN  /\ SegmentsAnalysed(r) = r.checks.answers_found
            /\ CountMsg(r.errors, "Could not analyze answer quality") >= 1
                  <=> r.checks.answers_found = 0

====
